---- MODULE Spec2Model ----
(***************************************************************************)
(* CHIP-8 emulator (dunderwood88/chip-8-emulator): the interpreter core    *)
(* of src/src/cpu.py driving a display of src/src/display/.                *)
(*                                                                         *)
(* The interpreter is modelled at the granularity of its array accesses:   *)
(* the two byte reads of _fetch, the dispatch of _decode_and_execute, and  *)
(* every iteration of the two loops of _display_draw are separate steps.   *)
(* An uncaught Python exception leaves the run loop for good: the model    *)
(* records it in `raised` and no interpreter action is enabled after it.   *)
(*                                                                         *)
(* Representation.  A numpy array of bytes that starts as np.zeros is held *)
(* as the function from the indices of its non-zero elements to their      *)
(* values (Memory), and a 0/1 grid as the set of the (column, row) pairs   *)
(* of its cells that hold 1.  Reads outside the array's shape raise        *)
(* IndexError as numpy does; they are never answered from the map.         *)
(***************************************************************************)
EXTENDS Integers, Sequences, FiniteSets, TLC

VARIABLES
    nep50,              \* the installed NumPy's scalar promotion rule (see CoordAdd)
    kind,               \* which AbstractDisplay was injected: "cli" or "tk"
    _memory,            \* Chip8._memory: 4096 bytes (the non-zero ones)
    _index,             \* Chip8._index
    _stack,             \* Chip8._stack
    _variables,         \* Chip8._variables: V0..VF
    _program_counter,   \* Chip8._program_counter
    _delay_timer,       \* Chip8._delay_timer
    _sound_timer,       \* Chip8._sound_timer
    arrays,             \* the live 32 x 64 numpy arrays (their lit cells), by identity
    _display,           \* display._display: the identity of the current grid array
    console,            \* CliDisplay: what the last render() printed
    _buffer,            \* multiprocessing.Queue: objects put but not yet pickled
    pipe,               \* multiprocessing.Queue: pickled frames in the pipe
    canvas,             \* the Tk canvas of the consumer process
    at,                 \* position of the interpreter in Chip8.run
    instruction,        \* run's / _fetch's local `instruction`
    frame,              \* the locals of _display_draw while it is active
    raised,             \* the exception that ended run, or NoError
    program,            \* history: the bytes passed to run, << >> before the call
    renders,            \* history: number of render() calls made so far
    toggles,            \* history: the set_pixel calls of the current draw, in order
    draw0,              \* history: Vx, Vy, I, VF and the grid when the draw began
    draws,              \* history: the draws completed so far, oldest first
    sent,               \* history: the grid at each render() call still in flight
    scheduled,          \* the consumer's Tk timer: root.after(1, check_queue) is pending
    order               \* history: the numbers of the render() calls in the queue's
                        \* buffer, in the pipe and painted, and the last poll's outcome

vars == << nep50, kind, _memory, _index, _stack, _variables, _program_counter,
           _delay_timer, _sound_timer, arrays, _display, console, _buffer, pipe,
           canvas, at, instruction, frame, raised, program, renders, toggles,
           draw0, draws, sent, scheduled, order >>

cpu_vars == << _memory, _index, _stack, _variables, _program_counter,
               _delay_timer, _sound_timer >>

-----------------------------------------------------------------------------
(* Program constants *)

MemorySize == 4096
ProgramStart == 512
_rows == 32
_columns == 64

(* Bounds of the model *)
MaxRenders == 3

Addresses == 0 .. (MemorySize - 1)

font_data ==
    << 240, 144, 144, 144, 240,   32,  96,  32,  32, 112,
       240,  16, 240, 128, 240,  240,  16, 240,  16, 240,
       144, 144, 240,  16,  16,  240, 128, 240,  16, 240,
       240, 128, 240, 144, 240,  240,  16,  32,  64,  64,
       240, 144, 240, 144, 240,  240, 144, 240,  16, 240,
       240, 144, 240, 144, 144,  224, 144, 224, 144, 224,
       240, 128, 128, 128, 240,  224, 144, 144, 144, 224,
       240, 128, 240, 128, 240,  240, 128, 240, 128, 128 >>

\* np.zeros((self._rows, self._columns), dtype=np.uint8): no cell holds 1
ZeroGrid == { }

\* np.zeros(4096, dtype=np.uint8): no byte is non-zero
ZeroMemory == [a \in { } |-> 0]

\* self._memory[a] for an address inside the array
Byte(mem, a) == IF a \in DOMAIN mem THEN mem[a] ELSE 0

\* Chip8._load_into_memory: self._memory[memory_offset + i] = p for each
\* byte p of the payload, one byte per increasing address.
\* The caller keeps memory_offset + len(payload) <= 4096.
_load_into_memory(mem, payload, memory_offset) ==
    LET written == memory_offset .. (memory_offset + Len(payload) - 1)
        value(a) == IF a \in written THEN payload[a - memory_offset + 1]
                                     ELSE Byte(mem, a)
    IN  [a \in { b \in DOMAIN mem \cup written : value(b) # 0 } |-> value(a)]

-----------------------------------------------------------------------------
(* Bit-level helpers: the masks and shifts of cpu.py on unsigned integers *)

\* (mutant of first_nibble_of: instruction >> 12, compared with the masks)
first_nibble_shifted(w) == w \div 4096

\* instruction & 0xF000
first_nibble_of(w) == (w \div 4096) * 4096
\* ((instruction & 0x0F00) >> 8).astype(np.uint8)
x_of(w) == (w \div 256) % 16
\* ((instruction & 0x00F0) >> 4).astype(np.uint8)
y_of(w) == (w \div 16) % 16
\* (mutant of nnn_of: the instruction word without the mask)
nnn_unmasked(w) == w

\* instruction & 0x0FFF
nnn_of(w) == w % 4096
\* instruction & 0x00FF
kk_of(w) == w % 256
\* (instruction & 0x000F).astype(np.uint8)
n_of(w) == w % 16

\* sprite & 0x0080: the bit that the inner loop of _display_draw tests
TopBit(sprite) == (sprite \div 128) % 2

\* sprite <<= 1 on an np.uint8 scalar.  Under NEP 50 promotion (NumPy >= 2)
\* the Python int 1 is weak and the result stays uint8; under the legacy
\* promotion (NumPy 1.x) scalar op Python-int gives int64 and the value grows.
\* Bit 7, the only bit read, is the same either way.
ShiftLeft(np2, sprite) == IF np2 THEN (2 * sprite) % 256 ELSE 2 * sprite

\* (self._variables[x] + c).astype(np.uint16): np.uint8 scalar + Python int.
\* NumPy >= 2 (NEP 50): the sum is computed in uint8 and wraps modulo 256
\* (with a RuntimeWarning, not an error) before it is widened.
\* NumPy 1.x: the sum is an int64 (at most 255 + 14), widened unchanged.
CoordAdd(np2, v, k) == IF np2 THEN ((v + k) % 256) % 65536 ELSE (v + k) % 65536

\* (mutant of AddImmediate: the sum clipped to the largest uint8)
AddImmediateSaturating(v, kk) == IF v + kk > 255 THEN 255 ELSE v + kk

\* self._variables[x] += instruction & 0x00FF: the sum is wider than uint8
\* under both promotion rules and is cast back on the store into the uint8
\* array, which truncates.
AddImmediate(v, kk) == (v + kk) % 256

-----------------------------------------------------------------------------
(* The display: AbstractDisplay and its two implementations.  A grid is a   *)
(* numpy array object; `arrays` maps the identities of the live objects to  *)
(* their contents and _display holds the identity self._display is bound to.*)

\* identities referenced by the queue's buffer
Buffered == { _buffer[k] : k \in 1 .. Len(_buffer) }

\* An identity for a newly allocated array: any identity not held by a live
\* object once self._display is rebound (the old array is still live when
\* the queue's buffer references it).
FreshId == CHOOSE id \in 0 .. (Cardinality(Buffered) + 1) : id \notin Buffered

\* (mutant of clear: display = np.zeros(...), binding a local name)
clear_local == UNCHANGED << _display, arrays >>

\* CliDisplay.clear / TkinterDisplay.clear:
\*   self._display = np.zeros((self._rows, self._columns), dtype=np.uint8)
\* rebinds the attribute to a new array; the old array object is not written.
clear ==
    /\ _display' = FreshId
    /\ arrays' = [id \in Buffered \cup {FreshId} |->
                     IF id = FreshId THEN ZeroGrid ELSE arrays[id]]

\* set_pixel's index check: self._display[y][x] raises IndexError when the
\* row or the column (np.uint16, never negative) is outside the array.
InGrid(x, y) == y < _rows /\ x < _columns

\* (mutant of toggled: self._display[y][x] |= 1)
toggled_or(g, x, y) == g \cup {<< x, y >>}

\* set_pixel: self._display[y][x] ^= 1, in place in the current array object
toggled(g, x, y) == IF << x, y >> \in g THEN g \ {<< x, y >>} ELSE g \cup {<< x, y >>}

\* (mutant of pixel_erased_of: return self._display[y][x])
pixel_value_of(g, x, y) == << x, y >> \in g

\* set_pixel's result: not self._display[y][x], read after the toggle
pixel_erased_of(g, x, y) == << x, y >> \notin g

set_pixel(x, y) ==
    /\ arrays' = [arrays EXCEPT ![_display] = toggled(@, x, y)]
    /\ UNCHANGED _display

\* (mutant of render: Queue(maxsize=1), whose put() waits while a frame is
\* in the channel)
render_bounded ==
    /\ kind = "tk" => Len(_buffer) + Len(pipe) < 1
    /\ renders' = renders + 1
    /\ IF kind = "cli"
       THEN /\ console' = [printed |-> TRUE, grid |-> arrays[_display]]
            /\ UNCHANGED << _buffer, sent, order >>
       ELSE /\ _buffer' = Append(_buffer, _display)
            /\ sent' = Append(sent, arrays[_display])
            /\ order' = [order EXCEPT !.buffer = Append(@, renders + 1)]
            /\ UNCHANGED console

\* CliDisplay.render: os.system("clear"); print(self._display)
\* TkinterDisplay.render: self._display_state_queue.put(self._display), which
\* appends the object itself to the queue's buffer and returns.
render ==
    /\ renders' = renders + 1
    /\ IF kind = "cli"
       THEN /\ console' = [printed |-> TRUE, grid |-> arrays[_display]]
            /\ UNCHANGED << _buffer, sent, order >>
       ELSE /\ _buffer' = Append(_buffer, _display)
            /\ sent' = Append(sent, arrays[_display])
            /\ order' = [order EXCEPT !.buffer = Append(@, renders + 1)]
            /\ UNCHANGED console

-----------------------------------------------------------------------------
(* Programs: the inputs of Chip8.run *)

Word(a, b, c, d) == a * 4096 + b * 256 + c * 16 + d

\* the big-endian byte image of a sequence of 16-bit words
Image(words) ==
    [k \in 1 .. 2 * Len(words) |->
        IF k % 2 = 1 THEN words[(k + 1) \div 2] \div 256
                     ELSE words[k \div 2] % 256]

NoFrame == [active |-> FALSE]
NoError == [type |-> "none"]
NoDraw == [active |-> FALSE]

-----------------------------------------------------------------------------
(* Construction *)

NoOutput == [printed |-> FALSE]
\* no render() call has been made and the consumer has not polled yet
NoFrames == [buffer |-> << >>, pipe |-> << >>, painted |-> << >>, polled |-> "none"]
\* tk.Canvas(root, bg="black", ...): no rectangle is white
BlankCanvas == { }

\* Chip8.__init__ after CliDisplay.__init__ / TkinterDisplay.__init__
Constructed(k) ==
    /\ nep50 \in BOOLEAN
    /\ kind = k
    /\ _memory = _load_into_memory(ZeroMemory, font_data, 0)
    /\ _index = 0
    /\ _stack = << >>
    /\ _variables = [v \in 0 .. 15 |-> 0]
    /\ _program_counter = ProgramStart
    /\ _delay_timer = 0
    /\ _sound_timer = 0
    /\ _display = 0
    /\ arrays = [id \in {0} |-> ZeroGrid]
    /\ console = NoOutput
    /\ _buffer = << >>
    /\ pipe = << >>
    /\ canvas = BlankCanvas
    /\ at = "constructed"
    /\ instruction = 0
    /\ frame = NoFrame
    /\ raised = NoError
    /\ program = << >>
    /\ renders = 0
    /\ toggles = << >>
    /\ draw0 = NoDraw
    /\ draws = << >>
    /\ sent = << >>
    /\ scheduled = (k = "tk")
    /\ order = NoFrames

-----------------------------------------------------------------------------
(* Chip8.run *)

display_vars == << arrays, _display, console, _buffer, sent, order >>
draw_hist == << program, toggles, draw0, draws >>

\* an uncaught exception unwinds _display_draw, _decode_and_execute and run
\* (site: the function of the innermost frame of the traceback)
Raise(type, site, value) ==
    /\ at' = "raised"
    /\ raised' = [type |-> type, site |-> site, value |-> value]
    /\ frame' = NoFrame

\* run: self._load_into_memory(program, memory_offset=0x200), then the loop
Load(bytes) ==
    /\ at = "constructed"
    /\ _memory' = _load_into_memory(_memory, bytes, ProgramStart)
    /\ at' = "fetch"
    /\ program' = bytes
    /\ UNCHANGED << nep50, kind, _index, _stack, _variables, _program_counter,
                    _delay_timer, _sound_timer, display_vars, pipe, canvas, scheduled,
                    instruction, frame, raised, renders, toggles, draw0, draws >>

\* (mutant of FetchHigh: the first byte is not shifted into the high byte)
FetchHighUnshifted ==
    /\ at = "fetch"
    /\ IF _program_counter \in Addresses
       THEN /\ instruction' = Byte(_memory, _program_counter)
            /\ _program_counter' = _program_counter + 1
            /\ at' = "fetch_low"
            /\ UNCHANGED << frame, raised >>
       ELSE /\ Raise("IndexError", "_fetch", _program_counter)
            /\ UNCHANGED << instruction, _program_counter >>
    /\ UNCHANGED << nep50, kind, _memory, _index, _stack, _variables,
                    _delay_timer, _sound_timer, display_vars, pipe, canvas, scheduled,
                    renders, draw_hist >>

\* _fetch, first read:
\*   instruction = self._memory[self._program_counter].astype(np.uint16)
\*   instruction <<= 0x8
\*   self._program_counter += 1
FetchHigh ==
    /\ at = "fetch"
    /\ IF _program_counter \in Addresses
       THEN /\ instruction' = (Byte(_memory, _program_counter) * 256) % 65536
            /\ _program_counter' = _program_counter + 1
            /\ at' = "fetch_low"
            /\ UNCHANGED << frame, raised >>
       ELSE /\ Raise("IndexError", "_fetch", _program_counter)
            /\ UNCHANGED << instruction, _program_counter >>
    /\ UNCHANGED << nep50, kind, _memory, _index, _stack, _variables,
                    _delay_timer, _sound_timer, display_vars, pipe, canvas, scheduled,
                    renders, draw_hist >>

\* _fetch, second read:
\*   instruction |= self._memory[self._program_counter].astype(np.uint16)
\*   self._program_counter += 1
\*   return instruction.astype(np.uint16)
FetchLow ==
    /\ at = "fetch_low"
    /\ IF _program_counter \in Addresses
       THEN /\ instruction' = (instruction + Byte(_memory, _program_counter)) % 65536
            /\ _program_counter' = _program_counter + 1
            /\ at' = "decode"
            /\ UNCHANGED << frame, raised >>
       ELSE /\ Raise("IndexError", "_fetch", _program_counter)
            /\ UNCHANGED << instruction, _program_counter >>
    /\ UNCHANGED << nep50, kind, _memory, _index, _stack, _variables,
                    _delay_timer, _sound_timer, display_vars, pipe, canvas, scheduled,
                    renders, draw_hist >>

\* what every branch of _decode_and_execute but the draw leaves alone
NoDrawing == UNCHANGED << nep50, kind, _memory, _stack, _delay_timer, _sound_timer,
                          pipe, canvas, scheduled, instruction, frame, raised, renders,
                          draw_hist, console, _buffer, sent, order >>

\* if first_nibble == 0x0000: if instruction == 0x00E0: self._display.clear()
ClearScreen ==
    /\ at = "decode"
    /\ first_nibble_of(instruction) = 0
    /\ instruction = 224
    /\ clear
    /\ at' = "fetch"
    /\ UNCHANGED << _index, _variables, _program_counter >>
    /\ NoDrawing

\* if first_nibble == 0x0000: any other word: the inner if has no else branch
\* (# TODO: more), the outer chain is left and the instruction does nothing
ZeroPrefixed ==
    /\ at = "decode"
    /\ first_nibble_of(instruction) = 0
    /\ instruction # 224
    /\ at' = "fetch"
    /\ UNCHANGED << _index, _variables, _program_counter, arrays, _display >>
    /\ NoDrawing

\* elif first_nibble == 0x1000: self._program_counter = instruction & 0x0FFF
Jump ==
    /\ at = "decode"
    /\ first_nibble_of(instruction) = 4096
    /\ _program_counter' = nnn_of(instruction)
    /\ at' = "fetch"
    /\ UNCHANGED << _index, _variables, arrays, _display >>
    /\ NoDrawing

\* elif first_nibble == 0x6000: self._variables[x] = instruction & 0x00FF
LoadImmediate ==
    /\ at = "decode"
    /\ first_nibble_of(instruction) = 24576
    /\ _variables' = [_variables EXCEPT ![x_of(instruction)] = kk_of(instruction)]
    /\ at' = "fetch"
    /\ UNCHANGED << _index, _program_counter, arrays, _display >>
    /\ NoDrawing

\* (mutant of AddToRegister: self._memory[x] += instruction & 0x00FF)
AddToMemory ==
    /\ at = "decode"
    /\ first_nibble_of(instruction) = 28672
    /\ _memory' = _load_into_memory(_memory,
                     << AddImmediate(Byte(_memory, x_of(instruction)),
                                     kk_of(instruction)) >>,
                     x_of(instruction))
    /\ at' = "fetch"
    /\ UNCHANGED << nep50, kind, _index, _stack, _variables, _program_counter,
                    _delay_timer, _sound_timer, display_vars, pipe, canvas,
                    scheduled, instruction, frame, raised, renders, draw_hist >>

\* elif first_nibble == 0x7000: self._variables[x] += instruction & 0x00FF
AddToRegister ==
    /\ at = "decode"
    /\ first_nibble_of(instruction) = 28672
    /\ _variables' = [_variables EXCEPT
                        ![x_of(instruction)] = AddImmediate(@, kk_of(instruction))]
    /\ at' = "fetch"
    /\ UNCHANGED << _index, _program_counter, arrays, _display >>
    /\ NoDrawing

\* elif first_nibble == 0xA000: self._index = instruction & 0x0FFF
LoadIndex ==
    /\ at = "decode"
    /\ first_nibble_of(instruction) = 40960
    /\ _index' = nnn_of(instruction)
    /\ at' = "fetch"
    /\ UNCHANGED << _variables, _program_counter, arrays, _display >>
    /\ NoDrawing

\* (mutant of UnknownInstruction: the error carries first_nibble, not the word)
UnknownInstructionNibble ==
    /\ at = "decode"
    /\ first_nibble_of(instruction) \notin {0, 4096, 24576, 28672, 40960, 53248}
    /\ Raise("RuntimeError", "_decode_and_execute", first_nibble_of(instruction))
    /\ UNCHANGED << nep50, kind, cpu_vars, display_vars, pipe, canvas, scheduled, instruction,
                    renders, draw_hist >>

\* else: raise RuntimeError(f"Unknown instruction: {instruction}")
UnknownInstruction ==
    /\ at = "decode"
    /\ first_nibble_of(instruction) \notin {0, 4096, 24576, 28672, 40960, 53248}
    /\ Raise("RuntimeError", "_decode_and_execute", instruction)
    /\ UNCHANGED << nep50, kind, cpu_vars, display_vars, pipe, canvas, scheduled, instruction,
                    renders, draw_hist >>

-----------------------------------------------------------------------------
(* Chip8._display_draw(x, y, num_bytes) *)

\* (mutant of DrawBegin: self._variables[0x000F] = 0 before the loops)
DrawBeginResetVF ==
    /\ at = "decode"
    /\ first_nibble_of(instruction) = 53248
    /\ renders < MaxRenders
    /\ frame' = [active |-> TRUE, x |-> x_of(instruction), y |-> y_of(instruction),
                 num_bytes |-> n_of(instruction), r |-> 0, c |-> 0, sprite |-> 0]
    /\ at' = "draw_row"
    /\ toggles' = << >>
    /\ draw0' = [active |-> TRUE,
                 x |-> x_of(instruction), y |-> y_of(instruction),
                 n |-> n_of(instruction),
                 vx |-> _variables[x_of(instruction)],
                 vy |-> _variables[y_of(instruction)],
                 vf |-> _variables[15],
                 index |-> _index,
                 lit |-> arrays[_display],
                 renders |-> renders]
    /\ _variables' = [_variables EXCEPT ![15] = 0]
    /\ UNCHANGED << nep50, kind, _memory, _index, _stack, _program_counter,
                    _delay_timer, _sound_timer, display_vars, pipe, canvas,
                    scheduled, instruction, raised, program, renders, draws >>

\* elif first_nibble == 0xD000:
\*     num_bytes = (instruction & 0x000F).astype(np.uint8)
\*     self._display_draw(x, y, num_bytes)
\* The count of render() calls is history and is capped at MaxRenders: a draw
\* that would pass the cap is not started.
DrawBegin ==
    /\ at = "decode"
    /\ first_nibble_of(instruction) = 53248
    /\ renders < MaxRenders
    /\ frame' = [active |-> TRUE, x |-> x_of(instruction), y |-> y_of(instruction),
                 num_bytes |-> n_of(instruction), r |-> 0, c |-> 0, sprite |-> 0]
    /\ at' = "draw_row"
    /\ toggles' = << >>
    /\ draw0' = [active |-> TRUE,
                 x |-> x_of(instruction), y |-> y_of(instruction),
                 n |-> n_of(instruction),
                 vx |-> _variables[x_of(instruction)],
                 vy |-> _variables[y_of(instruction)],
                 vf |-> _variables[15],
                 index |-> _index,
                 lit |-> arrays[_display],
                 renders |-> renders]
    /\ UNCHANGED << nep50, kind, cpu_vars, display_vars, pipe, canvas, scheduled, instruction,
                    raised, program, renders, draws >>

\* (mutant of DrawRow: self._display.render() indented into the row loop)
DrawRowRendering ==
    /\ at = "draw_row"
    /\ frame.r < frame.num_bytes
    /\ IF _index + frame.r \in Addresses
       THEN /\ frame' = [frame EXCEPT !.sprite = Byte(_memory, _index + frame.r), !.c = 0]
            /\ at' = "draw_bit"
            /\ render
            /\ UNCHANGED raised
       ELSE /\ Raise("IndexError", "_display_draw", _index + frame.r)
            /\ UNCHANGED << console, _buffer, sent, order, renders >>
    /\ UNCHANGED << nep50, kind, cpu_vars, arrays, _display, pipe, canvas, scheduled, instruction,
                    draw_hist >>

\* for r in range(num_bytes): sprite = self._memory[self._index + r]
DrawRow ==
    /\ at = "draw_row"
    /\ frame.r < frame.num_bytes
    /\ IF _index + frame.r \in Addresses
       THEN /\ frame' = [frame EXCEPT !.sprite = Byte(_memory, _index + frame.r), !.c = 0]
            /\ at' = "draw_bit"
            /\ UNCHANGED raised
       ELSE Raise("IndexError", "_display_draw", _index + frame.r)
    /\ UNCHANGED << nep50, kind, cpu_vars, display_vars, pipe, canvas, scheduled, instruction,
                    renders, draw_hist >>

\* the frame after one iteration of the inner loop: sprite <<= 1, next c; the
\* eighth iteration ends the row
NextBit(f) ==
    IF f.c = 7
    THEN [f EXCEPT !.sprite = ShiftLeft(nep50, @), !.c = 0, !.r = @ + 1]
    ELSE [f EXCEPT !.sprite = ShiftLeft(nep50, @), !.c = @ + 1]

\* for c in range(0x0008):
\*     if sprite & 0x0080:
\*         pixel_erased = self._display.set_pixel(
\*             (self._variables[x] + c).astype(np.uint16),
\*             (self._variables[y] + r).astype(np.uint16))
\*         self._variables[0x000F] = pixel_erased
\*     sprite <<= 1
\* The registers are read from self._variables at each call.
DrawBit ==
    /\ at = "draw_bit"
    /\ LET px == CoordAdd(nep50, _variables[frame.x], frame.c)
           py == CoordAdd(nep50, _variables[frame.y], frame.r)
       IN  IF TopBit(frame.sprite) = 1
           THEN IF InGrid(px, py)
                THEN /\ set_pixel(px, py)
                     /\ _variables' =
                            [_variables EXCEPT ![15] =
                                IF pixel_erased_of(arrays'[_display], px, py)
                                THEN 1 ELSE 0]
                     /\ toggles' = Append(toggles,
                            [col |-> px, row |-> py, r |-> frame.r, c |-> frame.c,
                             was_lit |-> << px, py >> \in arrays[_display]])
                     /\ frame' = NextBit(frame)
                     /\ at' = IF frame.c = 7 THEN "draw_row" ELSE "draw_bit"
                     /\ UNCHANGED raised
                ELSE /\ Raise("IndexError", "set_pixel", << px, py >>)
                     /\ UNCHANGED << arrays, _display, _variables, toggles >>
           ELSE /\ frame' = NextBit(frame)
                /\ at' = IF frame.c = 7 THEN "draw_row" ELSE "draw_bit"
                /\ UNCHANGED << arrays, _display, _variables, toggles, raised >>
    /\ UNCHANGED << nep50, kind, _memory, _index, _stack, _program_counter,
                    _delay_timer, _sound_timer, console, _buffer, sent, order, pipe,
                    canvas, scheduled, instruction, program, renders, draw0, draws >>

\* after the loops: self._display.render(), and _display_draw returns
DrawRender ==
    /\ at = "draw_row"
    /\ frame.r >= frame.num_bytes
    /\ render
    /\ frame' = NoFrame
    /\ at' = "fetch"
    /\ draws' = Append(draws, [draw0 EXCEPT !.renders = renders' - @]
                                @@ [toggles |-> toggles,
                                    vf1 |-> _variables[15],
                                    lit1 |-> arrays[_display]])
    /\ UNCHANGED << nep50, kind, cpu_vars, arrays, _display, pipe, canvas, scheduled,
                    instruction, raised, program, toggles, draw0 >>

-----------------------------------------------------------------------------
(* The programs run.  A program is three instructions, one of each of the   *)
(* sets First, Second and Third, followed by one of Terminators; the two    *)
(* jumps to the end of Memory, a single word that is not implemented and    *)
(* the end-to-end program of the documentation are run as well.  Sprite     *)
(* data is                                                                  *)
(* the font (I = 0 after construction, A005), the program's own bytes       *)
(* (A201: the low byte of the first instruction), the zero byte before the  *)
(* program (A1FF) or the last byte of Memory (AFFF).                        *)

h00E0 == Word(0, 0, 14, 0)      \* clear
h00EE == Word(0, 0, 14, 14)     \* zero-prefixed, not 00E0
h6A01 == Word(6, 10, 0, 1)      \* VA = 1
h6AFF == Word(6, 10, 15, 15)    \* VA = 255
h6F01 == Word(6, 15, 0, 1)      \* VF = 1
h7A80 == Word(7, 10, 8, 0)      \* VA += 128
hA005 == Word(10, 0, 0, 5)      \* I = 0x005: font rows 20 60 20 20 70
hA1FF == Word(10, 1, 15, 15)    \* I = 0x1FF: a zero byte, then the program
hA201 == Word(10, 2, 0, 1)      \* I = 0x201: the low byte of the first word
hAFFF == Word(10, 15, 15, 15)   \* I = 0xFFF: the last byte of Memory
hD010 == Word(13, 0, 1, 0)      \* no row at (V0, V1)
hD011 == Word(13, 0, 1, 1)      \* 1 row at (V0, V1)
hDA12 == Word(13, 10, 1, 2)     \* 2 rows at (VA, V1)
hD1A2 == Word(13, 1, 10, 2)     \* 2 rows at (V1, VA)
hDF11 == Word(13, 15, 1, 1)     \* 1 row at (VF, V1)
h1200 == Word(1, 2, 0, 0)       \* jump to the start of the program
h1FFE == Word(1, 15, 15, 14)    \* jump to the last word of Memory
h1FFF == Word(1, 15, 15, 15)    \* jump to the last byte of Memory
h8000 == Word(8, 0, 0, 0)       \* not implemented
hE19E == Word(14, 1, 9, 14)     \* not implemented

First == { h00EE, h6A01, h6AFF, h6F01, hD011, hD1A2, hDF11 }
Second == { h00E0, h6A01, h7A80, hA005, hA1FF, hA201, hAFFF, hD011 }
Third == { h00E0, h00EE, h7A80, hD010, hD011, hDA12, hD1A2, hDF11 }
Terminators == { h1200, h8000 }

\* A0 0A  D0 05  12 00
EndToEnd == << Word(10, 0, 0, 10), Word(13, 0, 0, 5), h1200 >>

Programs ==
    { << a, b, c, t >> : a \in First, b \in Second, c \in Third, t \in Terminators }
        \cup { << h1FFE >>, << h1FFF >>, << hE19E >>, EndToEnd }

\* the programs run on the windowed display
TkPrograms ==
    { << a, b, c, t >> : a \in { h00EE, hD011 }, b \in { h00E0, hA005, hD011 },
                         c \in { h6A01, h7A80, hD011 }, t \in Terminators }

Run == \E words \in (IF kind = "cli" THEN Programs ELSE TkPrograms) :
           Load(Image(words))

_decode_and_execute ==
    \/ ClearScreen
    \/ ZeroPrefixed
    \/ Jump
    \/ LoadImmediate
    \/ AddToRegister
    \/ LoadIndex
    \/ DrawBegin
    \/ UnknownInstruction

_display_draw == DrawRow \/ DrawBit \/ DrawRender

_fetch == FetchHigh \/ FetchLow

-----------------------------------------------------------------------------
(* TkinterDisplay: the queue's feeder thread and the consumer process *)

\* the array objects still referenced once the buffer is `buf`
Live(buf) == { _display } \cup { buf[k] : k \in 1 .. Len(buf) }

\* multiprocessing.Queue's feeder thread (started by the first put): takes the
\* oldest buffered object, pickles it as it is at that moment and writes the
\* bytes to the pipe.  Between put() and this step the producer runs on.
Feed ==
    /\ kind = "tk"
    /\ _buffer # << >>
    /\ pipe' = Append(pipe, arrays[Head(_buffer)])
    /\ _buffer' = Tail(_buffer)
    /\ arrays' = [id \in Live(Tail(_buffer)) |-> arrays[id]]
    /\ order' = [order EXCEPT !.buffer = Tail(@), !.pipe = Append(@, Head(order.buffer))]
    /\ UNCHANGED << nep50, kind, cpu_vars, _display, console, canvas, scheduled, at,
                    instruction, frame, raised, renders, draw_hist, sent >>

\* (mutant of check_queue: root.after(1, check_queue) moved into the try
\* block, after the repaint)
check_queue_in_try ==
    /\ kind = "tk"
    /\ scheduled
    /\ IF pipe # << >>
       THEN /\ canvas' = Head(pipe)
            /\ pipe' = Tail(pipe)
            /\ sent' = Tail(sent)
            /\ order' = [order EXCEPT !.pipe = Tail(@),
                                      !.painted = Append(@, Head(order.pipe)),
                                      !.polled = "frame"]
            /\ scheduled' = TRUE
       ELSE /\ order' = [order EXCEPT !.polled = "empty"]
            /\ scheduled' = FALSE
            /\ UNCHANGED << canvas, pipe, sent >>
    /\ UNCHANGED << nep50, kind, cpu_vars, arrays, _display, console, _buffer, at,
                    instruction, frame, raised, renders, draw_hist >>

\* (mutant of check_queue: the poll drains the channel and paints only the
\* newest frame)
check_queue_newest ==
    /\ kind = "tk"
    /\ scheduled
    /\ IF pipe # << >>
       THEN /\ canvas' = pipe[Len(pipe)]
            /\ pipe' = << >>
            /\ sent' = SubSeq(sent, Len(pipe) + 1, Len(sent))
            /\ order' = [order EXCEPT !.pipe = << >>,
                                      !.painted = Append(@, order.pipe[Len(order.pipe)]),
                                      !.polled = "frame"]
       ELSE /\ order' = [order EXCEPT !.polled = "empty"]
            /\ UNCHANGED << canvas, pipe, sent >>
    /\ scheduled' = TRUE
    /\ UNCHANGED << nep50, kind, cpu_vars, arrays, _display, console, _buffer, at,
                    instruction, frame, raised, renders, draw_hist >>

\* _tkinter_root.check_queue, run by root.after(1, check_queue):
\*   grid = self._display_state_queue.get_nowait()
\*   every cell's rectangle is created, white if grid[i, j] == 1 else black
\*   except Empty: pass
\*   root.after(1, check_queue)
check_queue ==
    /\ kind = "tk"
    /\ scheduled
    /\ IF pipe # << >>
       THEN /\ canvas' = Head(pipe)
            /\ pipe' = Tail(pipe)
            /\ sent' = Tail(sent)
            /\ order' = [order EXCEPT !.pipe = Tail(@),
                                      !.painted = Append(@, Head(order.pipe)),
                                      !.polled = "frame"]
       ELSE /\ order' = [order EXCEPT !.polled = "empty"]
            /\ UNCHANGED << canvas, pipe, sent >>
    /\ scheduled' = TRUE
    /\ UNCHANGED << nep50, kind, cpu_vars, arrays, _display, console, _buffer, at,
                    instruction, frame, raised, renders, draw_hist >>

-----------------------------------------------------------------------------
(* Specifications *)

\* src/src/main.py: Chip8(CliDisplay()).run(program)
Init == Constructed("cli")

Next == Run \/ _fetch \/ _decode_and_execute \/ _display_draw

Spec == Init /\ [][Next]_vars

\* src/main.py: Chip8(TkinterDisplay()).run(program)
InitTk == Constructed("tk")

NextTk == Next \/ Feed \/ check_queue

SpecTk == InitTk /\ [][NextTk]_vars

\* The windowed display with its two other threads of control scheduled
\* fairly: the queue's feeder thread, which runs whenever the buffer holds an
\* object, and the Tk main loop, which runs the pending check_queue timer.
\* Two programs are run: one that loops and draws on every pass, and one
\* that draws twice and stops on a word that is not implemented.
FairPrograms ==
    { << h6A01, h7A80, hA005, hD011, h00E0, h00EE, h1200 >>,
      << hD011, hD011, h8000 >> }

RunFair == \E words \in FairPrograms : Load(Image(words))

NextTkFair ==
    RunFair \/ _fetch \/ _decode_and_execute \/ _display_draw \/ Feed \/ check_queue

SpecTkFair == InitTk /\ [][NextTkFair]_vars /\ WF_vars(Feed) /\ WF_vars(check_queue)

\* either display injected
InitAny == Constructed("cli") \/ Constructed("tk")

SpecAny == InitAny /\ [][NextTk]_vars

-----------------------------------------------------------------------------
(* Properties *)

\* Memory after construction and run(program)
Loaded(words) ==
    _load_into_memory(_load_into_memory(ZeroMemory, font_data, 0),
                      Image(words), ProgramStart)

\* bit 7 - c of a byte: the sprite pixel of column c
SpriteBit(byte, c) == (byte \div (2 ^ (7 - c))) % 2

\* the cells (column, row), as plain integers, of the set bits of the n-row
\* sprite at Memory[i ..] placed at (vx, vy)
SpriteCells(mem, i, n, vx, vy) ==
    { << vx + c, vy + r >> : << r, c >> \in
        { q \in (0 .. (n - 1)) \X (0 .. 7) : SpriteBit(Byte(mem, i + q[1]), q[2]) = 1 } }

\* the cells a completed draw toggled
Cells(d) == { << d.toggles[k].col, d.toggles[k].row >> : k \in 1 .. Len(d.toggles) }

\* the high nibble of a word, 0 .. 15
HighNibble(w) == w \div 4096

\* a word that is none of 00E0, 1nnn, 6xkk, 7xkk, Annn, Dxyn
Unrecognized(w) ==
    \/ HighNibble(w) \notin {0, 1, 6, 7, 10, 13}
    \/ HighNibble(w) = 0 /\ w # 224

\* the cells of the grid
Grid == (0 .. (_columns - 1)) \X (0 .. (_rows - 1))

\* C1: every completed Dxyn whose sprite lies on the grid toggled exactly the
\* cells (Vx + c, Vy + r) of the set bits of Memory[I + r], each once and no
\* other cell, with Vx and Vy the values the registers x and y (0xF included)
\* held when the instruction began.
C1_DrawTogglesSpriteCells ==
    \A k \in 1 .. Len(draws) :
        LET d == draws[k]
            cells == SpriteCells(_memory, d.index, d.n, d.vx, d.vy)
        IN  cells \subseteq Grid =>
                /\ Cells(d) = cells
                /\ Cardinality(cells) = Len(d.toggles)

\* C2: decode-and-execute of a word that is not an implemented instruction
\* raises, and the run loop is left: no further fetch follows.
C2_UnrecognizedWordRaises ==
    [][(at = "decode" /\ Unrecognized(instruction))
          => (at' = "raised" /\ raised'.type = "RuntimeError")]_vars

\* the run of the end-to-end program A0 0A D0 05 12 00
RunsEndToEnd == program = Image(EndToEnd)

\* the cells of the 5-row sprite at Memory[0x00A .. 0x00E] placed at (0, 0)
Glyph == SpriteCells(Loaded(EndToEnd), 10, 5, 0, 0)

Drawing == at \in {"draw_row", "draw_bit"}

\* C3 as stated: once the sprite has been presented, it has been presented
\* exactly once and neither Memory, V0..VF, the index register nor the grid
\* changes again.
C3_DrawnOnceThenQuiet ==
    (RunsEndToEnd /\ renders >= 1) =>
        /\ renders = 1
        /\ arrays[_display] = Glyph
        /\ _memory = Loaded(EndToEnd)
        /\ _variables = [v \in 0 .. 15 |-> 0]
        /\ _index = 10

\* C3, amended: the jump at 0x204 goes back to 0x200, so every pass of the
\* loop runs A00A and D005 again.  Each pass toggles exactly the cells of the
\* sprite at the top-left corner and presents the frame once; the grid shows
\* the sprite after an odd number of draws and is blank after an even number,
\* with VF = 0 and VF = 1 respectively.  Memory, V0..VE and the index register
\* (0x00A once set) never change, and the run never raises.
C3_RedrawnEveryPass ==
    RunsEndToEnd =>
        /\ at # "raised"
        /\ _memory = Loaded(EndToEnd)
        /\ \A v \in 0 .. 14 : _variables[v] = 0
        /\ _index \in {0, 10}
        /\ (Drawing \/ renders >= 1) => _index = 10
        /\ renders = Len(draws)
        /\ \A k \in 1 .. Len(draws) :
              /\ Cells(draws[k]) = Glyph
              /\ Len(draws[k].toggles) = Cardinality(Glyph)
        /\ ~Drawing =>
              /\ arrays[_display] = IF renders % 2 = 1 THEN Glyph ELSE { }
              /\ _variables[15] = IF renders > 0 /\ renders % 2 = 0 THEN 1 ELSE 0
              /\ renders > 0 => console = [printed |-> TRUE, grid |-> arrays[_display]]

\* C3 witness: the second pass has erased the sprite again
C3_SecondPassErased ==
    /\ RunsEndToEnd
    /\ renders = 2
    /\ at = "fetch"
    /\ arrays[_display] = { }
    /\ _variables[15] = 1

\* C4: every frame in the pipe to the consumer equals the producer's grid as
\* it was at the render() call that enqueued it.
C4_FramesAreSnapshots ==
    \A k \in 1 .. Len(pipe) : pipe[k] = sent[k]

Capped == at = "decode" /\ HighNibble(instruction) = 13 /\ renders >= MaxRenders

C6_ProgramCounterInMemory ==
    _program_counter \in 0 .. 4095

\* C7: a set sprite bit whose cell (Vx + c, Vy + r), computed as plain
\* integers, is off the grid toggles no cell: set_pixel raises instead.
C7_OffGridBitRaises ==
    [][(/\ at = "draw_bit"
        /\ TopBit(frame.sprite) = 1
        /\ \/ _variables[frame.x] + frame.c >= 64
           \/ _variables[frame.y] + frame.r >= 32)
          => (/\ arrays' = arrays
              /\ at' = "raised"
              /\ raised'.type = "IndexError")]_vars

\* the toggles of a draw were made rows ascending, columns ascending in a row
RowMajor(ts) ==
    \A i \in 1 .. Len(ts) : \A j \in 1 .. Len(ts) :
        i < j => (ts[i].r < ts[j].r \/ (ts[i].r = ts[j].r /\ ts[i].c < ts[j].c))

C9_DrawTwiceRestores ==
    \A k \in 1 .. Len(draws) :
        LET d == draws[k]
            cells == { << d.vx + c, d.vy >> : c \in 0 .. 7 }
        IN  (/\ d.n = 1
             /\ Byte(_memory, d.index) = 255
             /\ cells \subseteq Grid
             /\ cells \cap d.lit = { })
            => /\ d.lit1 = d.lit \cup cells
               /\ d.vf1 = 0
               /\ \A j \in 1 .. Len(draws) :
                     (/\ j = k + 1
                      /\ draws[j].x = d.x /\ draws[j].y = d.y
                      /\ draws[j].vx = d.vx /\ draws[j].vy = d.vy
                      /\ draws[j].index = d.index /\ draws[j].n = d.n
                      /\ draws[j].lit = d.lit1)
                     => /\ draws[j].lit1 = d.lit
                        /\ draws[j].vf1 = 1

\* C10: render() is not called while the loops of a draw are running, every
\* completed Dxyn has called it exactly once, and nothing else calls it.
C10_RenderOncePerDraw ==
    /\ Drawing => renders = draw0.renders
    /\ \A k \in 1 .. Len(draws) : draws[k].renders = 1
    /\ renders = Len(draws)

\* C10 witness: a draw of several toggles has completed and rendered
C10_DrawRendered ==
    /\ at = "fetch"
    /\ Len(draws) > 0
    /\ Len(draws[Len(draws)].toggles) > 1
    /\ renders = Len(draws)

\* the state that 6xkk, 7xkk and 1nnn leave alone besides the registers and
\* the program counter
Untouched ==
    UNCHANGED << _memory, _index, _stack, _delay_timer, _sound_timer, arrays,
                 _display, console, _buffer, renders >>

\* C11: 6xkk sets register x to kk and 7xkk sets it to (Vx + kk) mod 256;
\* no other register, nor the index register, Memory or the grid changes.
C11_LoadAndAddImmediate ==
    [][(/\ at = "decode"
        /\ HighNibble(instruction) \in {6, 7})
          => LET x == (instruction \div 256) % 16
                 kk == instruction % 256
             IN  /\ _variables'[x] = IF HighNibble(instruction) = 6
                                     THEN kk
                                     ELSE (_variables[x] + kk) % 256
                 /\ \A v \in 0 .. 15 : v # x => _variables'[v] = _variables[v]
                 /\ Untouched
                 /\ at' = "fetch"]_vars

\* C11 witness: 7A80 has wrapped VA = 255 round to 127
C11_AddWrapped ==
    /\ at = "fetch"
    /\ instruction = h7A80
    /\ _variables[10] = 127

\* C12: 1nnn sets the program counter to the low 12 bits of the word and
\* changes nothing else; render() is not called.
C12_JumpSetsProgramCounter ==
    [][(/\ at = "decode"
        /\ HighNibble(instruction) = 1)
          => /\ _program_counter' = instruction % 4096
             /\ _variables' = _variables
             /\ Untouched
             /\ at' = "fetch"]_vars

\* C12 witness: 1200, fetched after a draw, has set the program counter from
\* 0x208 back to 0x200
C12_JumpedBack ==
    /\ at = "fetch"
    /\ instruction = h1200
    /\ _program_counter = 512
    /\ renders > 0

\* C13: with either display, executing 00E0 leaves no cell of the
\* (producer-side) grid at 1 and leaves V0..VF and the index register as
\* they were; the grid is still blank when the next fetch begins.
C13_ClearBlanksGrid ==
    [][(/\ at = "decode"
        /\ instruction = 224
        /\ at' # at)
          => /\ at' = "fetch"
             /\ arrays'[_display'] = { }
             /\ _variables' = _variables
             /\ _index' = _index]_vars

\* C13 witness: on the windowed display, 00E0 has blanked a grid that the
\* draw before it left with lit cells
C13_ClearedAfterDraw ==
    /\ kind = "tk"
    /\ at = "fetch"
    /\ instruction = h00E0
    /\ Len(draws) > 0
    /\ draws[Len(draws)].lit1 # { }
    /\ arrays[_display] = { }

\* C14: a Fetch that begins with the program counter at p, p + 1 <= 4095,
\* returns Memory[p] * 256 + Memory[p + 1] and leaves the program counter at
\* p + 2; neither of its two reads changes any other state.  (Between the
\* reads the program counter is p + 1.)
C14_FetchBigEndian ==
    [][/\ (at = "fetch" /\ _program_counter + 1 <= 4095)
            => /\ at' = "fetch_low"
               /\ _program_counter' = _program_counter + 1
               /\ _variables' = _variables
               /\ Untouched
       /\ (at = "fetch_low" /\ _program_counter <= 4095)
            => /\ at' = "decode"
               /\ _program_counter' = _program_counter + 1
               /\ instruction' = Byte(_memory, _program_counter - 1) * 256
                                    + Byte(_memory, _program_counter)
               /\ _variables' = _variables
               /\ Untouched]_vars

\* C14 witness: the bytes 6A FF at 0x200 were fetched as 0x6AFF, with the
\* program counter left at 0x202
C14_FetchedFirstWord ==
    /\ at = "decode"
    /\ Byte(_memory, 512) = 106
    /\ Byte(_memory, 513) = 255
    /\ instruction = 27391
    /\ _program_counter = 514

\* the interpreter has finished the loops of a draw and calls render() next
AtRender == at = "draw_row" /\ frame.r >= frame.num_bytes

\* the numbers 1 .. n in order
UpTo(n) == [k \in 1 .. n |-> k]

\* C15: on the windowed display, render() can always be taken when the
\* interpreter reaches it, whatever is queued and whether or not the consumer
\* has polled; each call appends exactly one entry at the tail of the channel
\* and returns, and every frame put so far is still in the channel, in
\* order, unless the consumer has taken it.
C15_RenderNeverWaits ==
    /\ [](AtRender => ENABLED DrawRender)
    /\ [](order.painted \o order.pipe \o order.buffer = UpTo(renders))
    /\ [][renders' # renders
            => /\ AtRender
               /\ at' = "fetch"
               /\ renders' = renders + 1
               /\ _buffer' = Append(_buffer, _display)
               /\ pipe' = pipe
               /\ order'.buffer = Append(order.buffer, renders')
               /\ order'.pipe = order.pipe
               /\ order'.painted = order.painted]_vars

\* C15 witness: three frames were put and the consumer has never polled
C15_ThreeQueuedUnpolled ==
    /\ kind = "tk"
    /\ renders = 3
    /\ order.polled = "none"
    /\ Len(_buffer) + Len(pipe) = 3

\* C16: the frames painted so far are the first render() calls, in call
\* order, each once; a poll that paints takes exactly the oldest frame of
\* the channel and no other; a poll that finds the channel empty leaves the
\* canvas as it was; after either the next poll is scheduled.
C16_PollsPaintInOrder ==
    /\ [](order.painted = UpTo(Len(order.painted)))
    /\ [][/\ order'.painted # order.painted
              => /\ pipe # << >>
                 /\ order'.painted = Append(order.painted, Head(order.pipe))
                 /\ canvas' = Head(pipe)
                 /\ pipe' = Tail(pipe)
                 /\ _buffer' = _buffer
                 /\ scheduled'
          /\ (order'.polled = "empty" /\ order.polled # "empty")
              => /\ pipe = << >>
                 /\ canvas' = canvas
                 /\ pipe' = pipe
                 /\ _buffer' = _buffer
                 /\ order'.painted = order.painted
                 /\ scheduled']_vars

\* C16 witness: two frames were painted and the next poll found the channel
\* empty while a third frame was still in the queue's buffer
C16_EmptyPollAfterTwo ==
    /\ order.painted = << 1, 2 >>
    /\ order.polled = "empty"
    /\ Len(_buffer) = 1
    /\ canvas # BlankCanvas

\* C17: with the feeder thread and the poll scheduled fairly, the frame of
\* every render() call is eventually painted, whatever the interpreter does
\* meanwhile, and a poll is pending in every state.
C17_EveryFramePainted ==
    /\ [](kind = "tk" => scheduled)
    /\ \A n \in 1 .. MaxRenders :
          (renders >= n) ~> (Len(order.painted) >= n /\ order.painted[n] = n)

\* C17 witness: the first frame was painted while two later frames were
\* queued behind it, and later all three had been painted
C17_PaintedWhileProducing ==
    /\ order.painted = << 1, 2, 3 >>
    /\ draws[1].toggles # << >>
    /\ canvas = arrays[_display]

\* the addresses of the font table and of a program of n bytes
FontArea == 0 .. (Len(font_data) - 1)
ProgramArea(n) == ProgramStart .. (ProgramStart + n - 1)

\* C18: in every state Memory[0 .. 79] is the font table; once run has
\* loaded the program (at most 3584 bytes), Memory[0x200 ..] is the program
\* and stays so, whatever was fetched and executed; every other byte is 0.
C18_MemoryIsFontAndProgram ==
    /\ Len(font_data) = 80
    /\ Len(program) <= MemorySize - ProgramStart
    /\ \A a \in FontArea : Byte(_memory, a) = font_data[a + 1]
    /\ \A a \in ProgramArea(Len(program)) :
          Byte(_memory, a) = program[a - ProgramStart + 1]
    /\ \A a \in DOMAIN _memory : a \in FontArea \cup ProgramArea(Len(program))

\* C18 witness: the program 6AFF 7A80 D011 1200 has gone round its loop,
\* executing each of its instructions, and is at a fetch again
C18_AfterEveryInstruction ==
    /\ program = Image(<< h6AFF, h7A80, hD011, h1200 >>)
    /\ at = "fetch"
    /\ instruction = h1200
    /\ renders = 2

\* the n sprite bytes Memory[i .. i + n - 1] are all 0x00 (n = 0: none)
BlankSprite(mem, i, n) == \A r \in 0 .. (n - 1) : Byte(mem, i + r) = 0

Quiet ==
    UNCHANGED << _memory, _variables, _index, _stack, _delay_timer, _sound_timer,
                 arrays, _display, console, _buffer, pipe, renders >>

\* C20: the two reads of a Fetch advance the program counter by one each
\* and change nothing else; the decode step that raises on the fetched word
\* changes nothing at all, the program counter staying two past the address
\* the word was fetched from, and the error carries the word.
C20_FailedCycleOnlyMovesPC ==
    [][/\ (at = "fetch" /\ at' = "fetch_low")
            => (_program_counter' = _program_counter + 1 /\ Quiet)
       /\ (at = "fetch_low" /\ at' = "decode")
            => (_program_counter' = _program_counter + 1 /\ Quiet)
       /\ (at = "decode" /\ at' = "raised")
            => /\ _program_counter' = _program_counter
               /\ Quiet
               /\ raised'.type = "RuntimeError"
               /\ raised'.value = Byte(_memory, _program_counter - 2) * 256
                                     + Byte(_memory, _program_counter - 1)
               /\ HighNibble(raised'.value) \notin {0, 1, 6, 7, 10, 13}]_vars

\* C20 witness: after a draw, the word 0x8000 fetched from 0x206 has raised
\* with the program counter at 0x208
C20_RaisedOnFourthWord ==
    /\ at = "raised"
    /\ raised.type = "RuntimeError"
    /\ raised.value = 32768
    /\ _program_counter = 520
    /\ renders > 0
    /\ arrays[_display] # { }

====
